---- MODULE Spec2Model ----
(***************************************************************************)
(* Release tracking core of signalupdates-bot: the persisted per-platform  *)
(* state (src/src/state.rs), the forum post (src/src/post.rs), the         *)
(* platform policy (src/src/platform.rs) and the paginated comparison      *)
(* fetch (src/src/utils.rs).                                               *)
(*                                                                         *)
(* Option<T> values are sets of at most one element: None is {} and        *)
(* Some(x) is {x}.                                                         *)
(***************************************************************************)
EXTENDS Integers, Sequences, FiniteSets, TLC

----------------------------------------------------------------------------
(* Bounds of the model *)

\* number of job runs (scheduled invocations)
MaxRuns == 2

\* largest post number the forum hands out
MaxPostNumber == 1

\* number of direct set_platform_state calls on one controller (SpecCtl)
MaxCalls == 2

\* number of page requests of one comparison fetch
MaxRequests == 2

\* number of commits the remote API puts on one page
MaxPageCommits == 1

\* largest total_commits the remote API reports
MaxTotal == 2

\* number of pieces (words and line breaks) of a commit message
MaxMsgLen == 4

\* number of commits of a Post
MaxCommits == 21

\* number of files of a comparison
MaxFiles == 3

----------------------------------------------------------------------------
(* Tags and versions *)

Some(x) == {x}

None == {}

Unwrap(o) == CHOOSE x \in o : TRUE

\* tag names as they appear in the repositories' tag lists
Tags == {"v1.0.0", "1.0.0", "v2.0.0-beta.1", "v2.0.0-rc.1", "v2.0.0", "v2.0.0.4",
         "v3.0.0-beta.1", "nightly"}

Ver(major, pre, build) == [major |-> major, pre |-> pre, build |-> build]

\* lenient_semver::parse: a leading "v" is optional, a fourth numeric
\* component is parsed into build, the part after "-" into pre, and a
\* string that is no version is an error (None).
version_from_tag(tag) ==
    CASE tag = "v1.0.0"        -> Some(Ver(1, "", ""))
      [] tag = "1.0.0"         -> Some(Ver(1, "", ""))
      [] tag = "v2.0.0-beta.1" -> Some(Ver(2, "beta.1", ""))
      [] tag = "v2.0.0-rc.1"   -> Some(Ver(2, "rc.1", ""))
      [] tag = "v2.0.0"        -> Some(Ver(2, "", ""))
      [] tag = "v2.0.0.4"      -> Some(Ver(2, "", "4"))
      [] tag = "v3.0.0-beta.1" -> Some(Ver(3, "beta.1", ""))
      [] OTHER                 -> None

\* semver::Version orders by the numeric components, then the pre-release
\* (a version with a pre-release precedes the same version without one), then
\* the build metadata (an empty build precedes a non-empty one). Pre-release
\* labels are compared as text: "beta.1" precedes "rc.1".
PreOrd(pre) ==
    CASE pre = ""     -> 2
      [] pre = "rc.1" -> 1
      [] OTHER        -> 0

BuildOrd(build) == IF build = "" THEN 0 ELSE 1

VersionLess(a, b) ==
    \/ a.major < b.major
    \/ a.major = b.major /\ PreOrd(a.pre) < PreOrd(b.pre)
    \/ a.major = b.major /\ PreOrd(a.pre) = PreOrd(b.pre)
         /\ BuildOrd(a.build) < BuildOrd(b.build)

\* the comparison of validate_state: a >= b
VersionGE(a, b) == ~VersionLess(a, b)

----------------------------------------------------------------------------
(* Platform policy *)

\* Platform::iter(): the variants of the enum, in declaration order
PlatformIter == <<"Android", "Desktop">>

Platform == {PlatformIter[i] : i \in 1..Len(PlatformIter)}

\* str::contains("beta") on the pre-release labels of the model
contains_beta(pre) == pre \in {"beta", "beta.1"}

\* should_post_version accepting every pre-release for Desktop
should_post_version_any_prerelease(platform, version) ==
    CASE platform = "Android" -> version.build = ""
      [] platform = "Desktop" -> version.pre # ""

should_post_version(platform, version) ==
    CASE platform = "Android" -> version.build = ""
      [] platform = "Desktop" -> contains_beta(version.pre)

----------------------------------------------------------------------------
(* State *)

\* the fields of struct State
StateFields == {"android", "ios", "desktop"}

PlatformState(prev, last, number, archiving) ==
    [last_posted_tag_previous_release |-> prev,
     last_posted_tag |-> last,
     last_post_number |-> number,
     posted_archiving_message |-> archiving]

\* the field of State a platform value selects
platform_field(platform) ==
    CASE platform = "Android" -> "android"
      [] platform = "Ios"     -> "ios"
      [] platform = "Desktop" -> "desktop"

platform_state(state, platform) == state[platform_field(platform)]

\* Tag::to_version
to_version(tag) == version_from_tag(tag)

\* anyhow::Result<()> of validate_state: "Ok" or the error raised
RECURSIVE validate_from(_, _)
validate_from(state, i) ==
    IF i > Len(PlatformIter) THEN "Ok"
    ELSE LET platform == PlatformIter[i]
             ps == platform_state(state, platform)
             prev == to_version(ps.last_posted_tag_previous_release)
             last == to_version(ps.last_posted_tag)
         IN  IF prev = None THEN "BadPreviousTag"
             ELSE IF last = None THEN "BadLastTag"
             ELSE IF VersionGE(Unwrap(prev), Unwrap(last)) THEN "NotLess"
             ELSE validate_from(state, i + 1)

validate_state(state) == validate_from(state, 1)

\* from_kv as it would be if it created the record it does not find
from_kv_bootstraps(store, get_ok) ==
    LET initial == [f \in StateFields |->
                      PlatformState("v1.0.0", "v2.0.0-beta.1", None, FALSE)]
    IN  IF ~get_ok
        THEN [result |-> "GetErr", controller |-> None, kv |-> store, puts |-> <<>>]
        ELSE IF store = None
        THEN [result |-> "Ok", controller |-> Some(initial), kv |-> Some(initial),
              puts |-> <<initial>>]
        ELSE IF validate_state(Unwrap(store)) # "Ok"
        THEN [result |-> "Invalid", controller |-> None, kv |-> store, puts |-> <<>>]
        ELSE [result |-> "Ok", controller |-> store, kv |-> store, puts |-> <<>>]

\* from_kv: get_ok is whether the store answers the read. The result names
\* the outcome, the controller returned (if any), the store afterwards and
\* the payloads of the puts issued.
from_kv(store, get_ok) ==
    IF ~get_ok
    THEN [result |-> "GetErr", controller |-> None, kv |-> store, puts |-> <<>>]
    ELSE IF store = None
    THEN [result |-> "NoState", controller |-> None, kv |-> store, puts |-> <<>>]
    ELSE IF validate_state(Unwrap(store)) # "Ok"
    THEN [result |-> "Invalid", controller |-> None, kv |-> store, puts |-> <<>>]
    ELSE [result |-> "Ok", controller |-> store, kv |-> store, puts |-> <<>>]

\* commit_changes: one put of the whole State; put_ok is whether the store
\* accepts it.
commit_changes(state, store, put_ok) ==
    [ok |-> put_ok,
     kv |-> IF put_ok THEN Some(state) ELSE store,
     puts |-> <<state>>]

\* set_platform_state without the comparison: it commits every time
set_platform_state_always_commits(state, store, platform, new, put_ok) ==
    LET changed == [state EXCEPT ![platform_field(platform)] = new]
        commit == commit_changes(changed, store, put_ok)
    IN  [ok |-> commit.ok, state |-> changed, kv |-> commit.kv,
         puts |-> commit.puts]

\* set_platform_state committing before it replaces the in-memory value
set_platform_state_commits_first(state, store, platform, new, put_ok) ==
    IF platform_state(state, platform) # new
    THEN LET changed == [state EXCEPT ![platform_field(platform)] = new]
             commit == commit_changes(state, store, put_ok)
         IN  [ok |-> commit.ok, state |-> changed, kv |-> commit.kv,
              puts |-> commit.puts]
    ELSE [ok |-> TRUE, state |-> state, kv |-> store, puts |-> <<>>]

\* set_platform_state restoring the in-memory value when the put fails
set_platform_state_rolls_back(state, store, platform, new, put_ok) ==
    IF platform_state(state, platform) # new
    THEN LET changed == [state EXCEPT ![platform_field(platform)] = new]
             commit == commit_changes(changed, store, put_ok)
         IN  [ok |-> commit.ok,
              state |-> IF commit.ok THEN changed ELSE state,
              kv |-> commit.kv, puts |-> commit.puts]
    ELSE [ok |-> TRUE, state |-> state, kv |-> store, puts |-> <<>>]

\* set_platform_state putting the stored record with only the platform's
\* field replaced
set_platform_state_writes_one_field(state, store, platform, new, put_ok) ==
    IF platform_state(state, platform) # new
    THEN LET changed == [state EXCEPT ![platform_field(platform)] = new]
             merged == [Unwrap(store) EXCEPT ![platform_field(platform)] = new]
             commit == commit_changes(merged, store, put_ok)
         IN  [ok |-> commit.ok, state |-> changed, kv |-> commit.kv,
              puts |-> commit.puts]
    ELSE [ok |-> TRUE, state |-> state, kv |-> store, puts |-> <<>>]

set_platform_state(state, store, platform, new, put_ok) ==
    IF platform_state(state, platform) # new
    THEN LET changed == [state EXCEPT ![platform_field(platform)] = new]
             commit == commit_changes(changed, store, put_ok)
         IN  [ok |-> commit.ok, state |-> changed, kv |-> commit.kv,
              puts |-> commit.puts]
    ELSE [ok |-> TRUE, state |-> state, kv |-> store, puts |-> <<>>]

----------------------------------------------------------------------------
(* Forum post *)

\* what the forum does with a posting request: the transport fails, or a
\* PostApiResponse comes back with or without a post number
ForumOutcomes ==
    {[transport_ok |-> FALSE, post_number |-> None]}
    \cup {[transport_ok |-> TRUE, post_number |-> n] :
            n \in {None} \cup {Some(k) : k \in 1..MaxPostNumber}}

\* Post::post taking a response without post number for a success
post_accepts_missing_number(outcome) ==
    IF ~outcome.transport_ok
    THEN [ok |-> FALSE, number |-> None, error |-> "could not fetch"]
    ELSE [ok |-> TRUE, number |-> outcome.post_number, error |-> ""]

\* the anyhow::Result<u64> of Post::post for a forum outcome
post(outcome) ==
    IF ~outcome.transport_ok
    THEN [ok |-> FALSE, number |-> None, error |-> "could not fetch"]
    ELSE IF outcome.post_number # None
    THEN [ok |-> TRUE, number |-> outcome.post_number, error |-> ""]
    ELSE [ok |-> FALSE, number |-> None, error |-> "no post number"]

----------------------------------------------------------------------------
(* Comparison fetch: get_github_comparison *)

\* the request URL: the comparison endpoint with its page and per_page
Url(page, per_page) == [page |-> page, per_page |-> per_page]

per_page_of(kind) == IF kind = "Full" THEN 100 ELSE 1

\* the URLs a next link of the remote API may name
LinkUrls == {Url(1, 100), Url(2, 100)}

\* the commits and files a response to url carries are named after the
\* page they come from
PageCommits(url, n) == [i \in 1..n |-> <<url.page, i>>]

\* the Link header of a response: absent, not parsable, or a parsed map
\* with or without a next relation
LinkHeaders ==
    {[present |-> FALSE, parsable |-> FALSE, next |-> None],
     [present |-> TRUE, parsable |-> FALSE, next |-> None]}
    \cup {[present |-> TRUE, parsable |-> TRUE, next |-> n] :
            n \in {None} \cup {Some(u) : u \in LinkUrls}}

\* what the remote API may answer to a request for url
Responses(url) ==
    {[fetch_ok |-> FALSE, json_ok |-> FALSE, total_commits |-> 0,
      commits |-> <<>>, files |-> None, link |-> l] :
        l \in {[present |-> FALSE, parsable |-> FALSE, next |-> None]}}
    \cup {[fetch_ok |-> TRUE, json_ok |-> FALSE, total_commits |-> 0,
           commits |-> <<>>, files |-> None, link |-> l] :
        l \in {[present |-> FALSE, parsable |-> FALSE, next |-> None]}}
    \cup {[fetch_ok |-> TRUE, json_ok |-> TRUE, total_commits |-> t,
           commits |-> PageCommits(url, n), files |-> f, link |-> l] :
        t \in 0..MaxTotal, n \in 0..MaxPageCommits,
        f \in {None, Some(<<url.page>>)}, l \in LinkHeaders}

FetchIdle ==
    [pc |-> "idle", kind |-> "", page |-> 0, url |-> Url(0, 0),
     total_commits |-> None, commits |-> <<>>, files |-> <<>>,
     requests |-> <<>>, responses |-> <<>>, last |-> None, result |-> None]

FetchError(f, message) ==
    [f EXCEPT !.pc = "done",
              !.result = Some([ok |-> FALSE, error |-> message,
                               expected |-> None, actual |-> None,
                               comparison |-> None])]

\* the code after the loop without the count check
finish_unchecked(f) ==
    [f EXCEPT !.pc = "done",
              !.result = Some([ok |-> TRUE, error |-> "",
                               expected |-> None, actual |-> None,
                               comparison |-> Some(
                                   [total_commits |-> Unwrap(f.total_commits),
                                    commits |-> f.commits,
                                    files |-> Some(f.files)])])]

\* the code after the loop: the count check of a Full comparison, then the
\* Comparison returned
finish(f) ==
    IF f.kind = "Full" /\ Unwrap(f.total_commits) # Len(f.commits)
    THEN [f EXCEPT !.pc = "done",
                   !.result = Some([ok |-> FALSE,
                                    error |-> "incomplete full comparison",
                                    expected |-> f.total_commits,
                                    actual |-> Some(Len(f.commits)),
                                    comparison |-> None])]
    ELSE [f EXCEPT !.pc = "done",
                   !.result = Some([ok |-> TRUE, error |-> "",
                                    expected |-> None, actual |-> None,
                                    comparison |-> Some(
                                        [total_commits |-> Unwrap(f.total_commits),
                                         commits |-> f.commits,
                                         files |-> Some(f.files)])])]

\* the loop asking for the page after the current one instead of following
\* the next link
loop_body_counts_pages(f, resp) ==
    LET sent == [f EXCEPT !.requests = Append(@, f.url),
                          !.responses = Append(@, resp),
                          !.last = Some(resp)]
    IN  IF ~resp.fetch_ok
        THEN FetchError(sent, "could not fetch comparison from GitHub")
        ELSE IF ~resp.json_ok
        THEN FetchError(sent, "could not get JSON for comparison part")
        ELSE LET got == [sent EXCEPT
                            !.total_commits = Some(resp.total_commits),
                            !.commits = @ \o resp.commits,
                            !.files = IF resp.files # None
                                      THEN @ \o Unwrap(resp.files) ELSE @]
             IN  IF f.kind = "JustAllFiles" THEN finish(got)
                 ELSE IF ~resp.link.present
                 THEN FetchError(got, "no Link header in GitHub's response")
                 ELSE IF ~resp.link.parsable
                 THEN FetchError(got, "could not parse Link header")
                 ELSE IF resp.link.next # None
                 THEN [got EXCEPT !.url = Url(f.page + 1, 100), !.page = @ + 1]
                 ELSE finish(got)

\* the loop without the early exit of the JustAllFiles kind
loop_body_always_paginates(f, resp) ==
    LET sent == [f EXCEPT !.requests = Append(@, f.url),
                          !.responses = Append(@, resp),
                          !.last = Some(resp)]
    IN  IF ~resp.fetch_ok
        THEN FetchError(sent, "could not fetch comparison from GitHub")
        ELSE IF ~resp.json_ok
        THEN FetchError(sent, "could not get JSON for comparison part")
        ELSE LET got == [sent EXCEPT
                            !.total_commits = Some(resp.total_commits),
                            !.commits = @ \o resp.commits,
                            !.files = IF resp.files # None
                                      THEN @ \o Unwrap(resp.files) ELSE @]
             IN  IF ~resp.link.present
                 THEN FetchError(got, "no Link header in GitHub's response")
                 ELSE IF ~resp.link.parsable
                 THEN FetchError(got, "could not parse Link header")
                 ELSE IF resp.link.next # None
                 THEN [got EXCEPT !.url = Unwrap(resp.link.next), !.page = @ + 1]
                 ELSE finish(got)

\* the loop taking a response without Link header for the last page
loop_body_missing_link_is_last(f, resp) ==
    LET sent == [f EXCEPT !.requests = Append(@, f.url),
                          !.responses = Append(@, resp),
                          !.last = Some(resp)]
    IN  IF ~resp.fetch_ok
        THEN FetchError(sent, "could not fetch comparison from GitHub")
        ELSE IF ~resp.json_ok
        THEN FetchError(sent, "could not get JSON for comparison part")
        ELSE LET got == [sent EXCEPT
                            !.total_commits = Some(resp.total_commits),
                            !.commits = @ \o resp.commits,
                            !.files = IF resp.files # None
                                      THEN @ \o Unwrap(resp.files) ELSE @]
             IN  IF f.kind = "JustAllFiles" THEN finish(got)
                 ELSE IF ~resp.link.present
                 THEN finish(got)
                 ELSE IF ~resp.link.parsable
                 THEN FetchError(got, "could not parse Link header")
                 ELSE IF resp.link.next # None
                 THEN [got EXCEPT !.url = Unwrap(resp.link.next), !.page = @ + 1]
                 ELSE finish(got)

\* one iteration of the loop on the response resp to the request for f.url
loop_body(f, resp) ==
    LET sent == [f EXCEPT !.requests = Append(@, f.url),
                          !.responses = Append(@, resp),
                          !.last = Some(resp)]
    IN  IF ~resp.fetch_ok
        THEN FetchError(sent, "could not fetch comparison from GitHub")
        ELSE IF ~resp.json_ok
        THEN FetchError(sent, "could not get JSON for comparison part")
        ELSE LET got == [sent EXCEPT
                            !.total_commits = Some(resp.total_commits),
                            !.commits = @ \o resp.commits,
                            !.files = IF resp.files # None
                                      THEN @ \o Unwrap(resp.files) ELSE @]
             IN  IF f.kind = "JustAllFiles" THEN finish(got)
                 ELSE IF ~resp.link.present
                 THEN FetchError(got, "no Link header in GitHub's response")
                 ELSE IF ~resp.link.parsable
                 THEN FetchError(got, "could not parse Link header")
                 ELSE IF resp.link.next # None
                 THEN [got EXCEPT !.url = Unwrap(resp.link.next), !.page = @ + 1]
                 ELSE finish(got)


----------------------------------------------------------------------------
(* Changelog rendering: Commit and Post *)

\* Text is a sequence of pieces (strings); concatenation is \o. The pieces
\* of a commit message are its words and the line break.
NL == "\n"

\* the number of commits up to which the commit block is not collapsed
CollapseThreshold == 20

CoAuthored == "Co-Authored-By"

RevertsCommit == "This reverts commit"

MsgPieces == {"Fix", CoAuthored, RevertsCommit, NL}

\* str::contains on a line, for a marker that is one piece
contains(line, marker) == \E i \in 1..Len(line) : line[i] = marker

\* str::split('\n'): the lines of a text; the empty text has one empty line
RECURSIVE split(_)
split(text) ==
    IF text = <<>> THEN << <<>> >>
    ELSE LET rest == split(Tail(text))
         IN  IF Head(text) = NL THEN << <<>> >> \o rest
             ELSE << <<Head(text)>> \o rest[1] >> \o Tail(rest)

\* [T]::join(sep) on texts
RECURSIVE join(_, _)
join(texts, sep) ==
    IF texts = <<>> THEN <<>>
    ELSE IF Len(texts) = 1 THEN texts[1]
    ELSE texts[1] \o sep \o join(Tail(texts), sep)

\* the filter of Commit::new
keep_line(line) == ~contains(line, CoAuthored) /\ ~contains(line, RevertsCommit)

\* Commit::new keeping every line
Commit_new_unfiltered(platform, full_message, sha) ==
    [platform |-> platform, message_lines |-> split(full_message), sha |-> sha]

\* Commit::new filtering only the lines after the first
Commit_new_keeps_first(platform, full_message, sha) ==
    [platform |-> platform,
     message_lines |-> <<Head(split(full_message))>>
                         \o SelectSeq(Tail(split(full_message)), keep_line),
     sha |-> sha]

Commit_new(platform, full_message, sha) ==
    [platform |-> platform,
     message_lines |-> SelectSeq(split(full_message), keep_line),
     sha |-> sha]

github_commit_url(platform, sha) ==
    <<"https://github.com/signalapp/Signal-", platform, "/commit/", sha>>

github_comparison_url(platform, old, new) ==
    <<"https://github.com/signalapp/Signal-", platform, "/compare/">>
      \o old \o <<"...">> \o new

availability_notice(platform) ==
    CASE platform = "Android" ->
           <<NL, "(Not Yet) Available via [Firebase App Distribution](https://community.signalusers.org/t/17538)">>
      [] platform = "Desktop" -> <<>>

\* Commit::markdown_text
Commit_markdown_text(commit, index) ==
    LET ordinal == index + 1
        message == IF Len(commit.message_lines) >= 1
                   THEN commit.message_lines[1]
                   ELSE <<"*Empty commit message*">>
        commit_url == github_commit_url(commit.platform, commit.sha)
        main_content == <<"- ">> \o message \o <<" [[", ToString(ordinal), "]](">>
                          \o commit_url \o <<")", NL>>
        details == IF Len(commit.message_lines) >= 2
                   THEN <<NL, "    ">>
                          \o join(Tail(commit.message_lines), <<NL, "    ">>)
                   ELSE <<>>
    IN  main_content \o details

\* str::replace('v', "") on a tag
exact_version_string_from_tag(tag) == SelectSeq(tag, LAMBDA c : c # "v")

\* Post::markdown_text collapsing the commit block from CollapseThreshold on
Post_markdown_text_collapses_early(self) ==
    LET commits == join([i \in 1..Len(self.commits) |->
                           Commit_markdown_text(self.commits[i], i - 1)], <<NL>>)
        previous_version == exact_version_string_from_tag(self.previous_tag)
        new_version == exact_version_string_from_tag(self.new_tag)
        comparison_url == github_comparison_url(self.platform, self.previous_tag,
                                                self.new_tag)
        commits_count == Len(self.commits)
        commits_prefix == IF commits_count < CollapseThreshold THEN <<>>
                          ELSE <<"[details=\"Show commits\"]", NL, NL>>
        commits_postfix == IF commits_count < CollapseThreshold THEN <<>>
                           ELSE <<NL, NL, "[/details]">>
        commits_word_suffix == IF commits_count = 1 THEN <<>> ELSE <<"s">>
    IN  <<"## :tada: - New Version: ">> \o new_version
          \o availability_notice(self.platform) \o <<NL, NL, "[quote]", NL>>
          \o <<ToString(commits_count), " new commit">> \o commits_word_suffix
          \o <<" since ">> \o previous_version \o <<":", NL, NL>>
          \o commits_prefix \o commits \o commits_postfix
          \o <<NL, NL, "---", NL, "Gathered from [signalapp/Signal-",
               self.platform, "](">> \o comparison_url \o <<")", NL, "[/quote]">>

\* Post::markdown_text
Post_markdown_text(self) ==
    LET commits == join([i \in 1..Len(self.commits) |->
                           Commit_markdown_text(self.commits[i], i - 1)], <<NL>>)
        previous_version == exact_version_string_from_tag(self.previous_tag)
        new_version == exact_version_string_from_tag(self.new_tag)
        comparison_url == github_comparison_url(self.platform, self.previous_tag,
                                                self.new_tag)
        commits_count == Len(self.commits)
        commits_prefix == IF commits_count <= CollapseThreshold THEN <<>>
                          ELSE <<"[details=\"Show commits\"]", NL, NL>>
        commits_postfix == IF commits_count <= CollapseThreshold THEN <<>>
                           ELSE <<NL, NL, "[/details]">>
        commits_word_suffix == IF commits_count = 1 THEN <<>> ELSE <<"s">>
    IN  <<"## :tada: - New Version: ">> \o new_version
          \o availability_notice(self.platform) \o <<NL, NL, "[quote]", NL>>
          \o <<ToString(commits_count), " new commit">> \o commits_word_suffix
          \o <<" since ">> \o previous_version \o <<":", NL, NL>>
          \o commits_prefix \o commits \o commits_postfix
          \o <<NL, NL, "---", NL, "Gathered from [signalapp/Signal-",
               self.platform, "](">> \o comparison_url \o <<")", NL, "[/quote]">>

RenderIdle == [pc |-> "idle", messages |-> <<>>, post |-> None, text |-> <<>>]

----------------------------------------------------------------------------
(* Localization extractor *)

\* file names of a comparison
Filenames == {"app/src/main/res/values/strings.xml",
              "app/src/main/res/values-de/strings.xml",
              "_locales/en/messages.json",
              "_locales/de/messages.json",
              "README.md"}

\* Platform::localization_change: the language a localization file of the
\* platform is for, None for every other file
localization_change(platform, filename) ==
    CASE platform = "Android" /\ filename = "app/src/main/res/values/strings.xml"
           -> Some("en")
      [] platform = "Android" /\ filename = "app/src/main/res/values-de/strings.xml"
           -> Some("de")
      [] platform = "Desktop" /\ filename = "_locales/en/messages.json"
           -> Some("en")
      [] platform = "Desktop" /\ filename = "_locales/de/messages.json"
           -> Some("de")
      [] OTHER -> None

\* Ord of LocalizationChange, a total order: "de" precedes "en"
ChangeLess(a, b) == a = "de" /\ b = "en"

\* Iterator::filter_map, given the options the elements map to: the values
\* of those that are Some, in order
filter_map(mapped) ==
    LET kept == SelectSeq(mapped, LAMBDA o : o # None)
    IN  [i \in 1..Len(kept) |-> Unwrap(kept[i])]

\* x at its place in an ascending sequence
RECURSIVE insert_sorted(_, _)
insert_sorted(x, sorted) ==
    IF sorted = <<>> THEN <<x>>
    ELSE IF ChangeLess(Head(sorted), x)
         THEN <<Head(sorted)>> \o insert_sorted(x, Tail(sorted))
         ELSE <<x>> \o sorted

\* slice::sort_unstable under a total order
RECURSIVE sort_unstable(_)
sort_unstable(seq) ==
    IF seq = <<>> THEN <<>>
    ELSE insert_sorted(Head(seq), sort_unstable(Tail(seq)))

\* localization_changes_from_comparison returning the changes in file order
localization_changes_from_comparison_unsorted(platform, files) ==
    filter_map([i \in 1..Len(files) |->
                  localization_change(platform, files[i])])

localization_changes_from_comparison(platform, files) ==
    sort_unstable(
        filter_map([i \in 1..Len(files) |->
                  localization_change(platform, files[i])]))

LocIdle ==
    [pc |-> "idle", platform |-> "Android", original |-> <<>>, files |-> <<>>,
     first |-> None, result |-> None]

----------------------------------------------------------------------------
(* The job: one run per scheduled trigger *)

Runs == 1..MaxRuns

VARIABLES
    kv,            \* the record under STATE_KV_KEY: Option<State>
    pc,            \* per run: where the run is
    controller,    \* per run: StateController.state, None without controller
    load_result,   \* per run: outcome of from_kv ("" before the load)
    todo,          \* per run: the platforms still to process
    new_tag,       \* per run: the tag being announced for Head(todo)
    api_response,  \* per run: the forum's outcome for the last post request
    post_result,   \* per run: what Post::post returned for it
    set_call,      \* per run: arguments of the last set_platform_state call
    set_result,    \* per run: whether that call returned Ok
    ncalls,        \* per run: number of set_platform_state calls made
    puts,          \* per run: the puts issued, [platform, payload, ok]
    published,     \* per run: platforms whose post got a post number
    posted,        \* per platform and tag: posts the forum has created
    fetch,         \* the get_github_comparison call in progress
    render,        \* the Post being rendered and its markdown text
    loc            \* the localization extraction in progress

vars == <<kv, pc, controller, load_result, todo, new_tag, api_response,
          post_result, set_call, set_result, ncalls, puts, published, posted,
          fetch, render, loc>>

\* (previous release tag, last posted tag) pairs a stored record may hold:
\* a well-formed one, one whose versions are equal, one whose versions
\* descend, one that does not parse
InitPairs ==
    {<<"v1.0.0", "v2.0.0-beta.1">>, <<"v1.0.0", "1.0.0">>,
     <<"v2.0.0", "v1.0.0">>, <<"nightly", "v2.0.0">>}

InitPlatformStates == {PlatformState(t[1], t[2], None, FALSE) : t \in InitPairs}

\* the store is written by hand before the first run: it holds no record or
\* any record of the shape of State
InitStores == {None} \cup {Some(s) : s \in [StateFields -> InitPlatformStates]}

Init ==
    /\ kv \in InitStores
    /\ pc = [r \in Runs |-> "idle"]
    /\ controller = [r \in Runs |-> None]
    /\ load_result = [r \in Runs |-> ""]
    /\ todo = [r \in Runs |-> <<>>]
    /\ new_tag = [r \in Runs |-> None]
    /\ api_response = [r \in Runs |-> None]
    /\ post_result = [r \in Runs |-> None]
    /\ set_call = [r \in Runs |-> None]
    /\ set_result = [r \in Runs |-> None]
    /\ ncalls = [r \in Runs |-> 0]
    /\ puts = [r \in Runs |-> <<>>]
    /\ published = [r \in Runs |-> {}]
    /\ posted = [p \in Platform |-> [t \in Tags |-> 0]]
    /\ fetch = FetchIdle
    /\ render = RenderIdle
    /\ loc = LocIdle

Finished(r) == pc[r] \in {"done", "failed"}

\* runs do not overlap and are numbered in the order they start
Exclusive(r) ==
    /\ \A q \in Runs \ {r} : pc[q] = "idle" \/ Finished(q)
    /\ IF r = 1 THEN TRUE ELSE Finished(r - 1)

\* StateController::from_kv at the start of a run
Load(r) ==
    /\ pc[r] = "idle"
    /\ \E get_ok \in BOOLEAN :
         LET res == from_kv(kv, get_ok)
         IN  /\ kv' = res.kv
             /\ controller' = [controller EXCEPT ![r] = res.controller]
             /\ load_result' = [load_result EXCEPT ![r] = res.result]
             /\ puts' = [puts EXCEPT ![r] = @ \o
                    [i \in 1..Len(res.puts) |->
                        [platform |-> "", payload |-> res.puts[i], ok |-> TRUE]]]
             /\ pc' = [pc EXCEPT ![r] =
                          IF res.result = "Ok" THEN "run" ELSE "failed"]
             /\ todo' = [todo EXCEPT ![r] =
                          IF res.result = "Ok" THEN PlatformIter ELSE <<>>]
    /\ UNCHANGED <<fetch, render, loc>>
    /\ UNCHANGED <<new_tag, api_response, post_result, set_call, set_result,
                   ncalls, published, posted>>

StartRun(r) == Exclusive(r) /\ Load(r)

\* the tag list of the platform's repository (github_api_tags_url): the
\* Android repository has no release candidate
RemoteTags(platform) ==
    CASE platform = "Android" -> Tags \ {"v2.0.0-rc.1"}
      [] platform = "Desktop" -> Tags

\* the tags of the remote list that may be announced after last
Candidates(platform, last) ==
    {t \in RemoteTags(platform) :
        /\ to_version(t) # None
        /\ to_version(last) # None
        /\ should_post_version(platform, Unwrap(to_version(t)))
        /\ VersionLess(Unwrap(to_version(last)), Unwrap(to_version(t)))}

\* the Publisher finds a new tag for the platform at hand
PickTag(r) ==
    /\ pc[r] = "run"
    /\ todo[r] # <<>>
    /\ \E t \in Candidates(Head(todo[r]),
                  platform_state(Unwrap(controller[r]), Head(todo[r])).last_posted_tag) :
         new_tag' = [new_tag EXCEPT ![r] = Some(t)]
    /\ pc' = [pc EXCEPT ![r] = "picked"]
    /\ UNCHANGED <<fetch, render, loc>>
    /\ UNCHANGED <<kv, controller, load_result, todo, api_response, post_result,
                   set_call, set_result, ncalls, puts, published, posted>>

\* no tag of the remote list qualifies (or the tag list could not be
\* fetched): nothing is done for the platform
NoNewTag(r) ==
    /\ pc[r] = "run"
    /\ todo[r] # <<>>
    /\ todo' = [todo EXCEPT ![r] = Tail(@)]
    /\ UNCHANGED <<fetch, render, loc>>
    /\ UNCHANGED <<kv, pc, controller, load_result, new_tag, api_response,
                   post_result, set_call, set_result, ncalls, puts, published,
                   posted>>

\* the Full comparison is fetched (see the comparison fetch below)
FetchOk(r) ==
    /\ pc[r] = "picked"
    /\ pc' = [pc EXCEPT ![r] = "fetched"]
    /\ UNCHANGED <<fetch, render, loc>>
    /\ UNCHANGED <<kv, controller, load_result, todo, new_tag, api_response,
                   post_result, set_call, set_result, ncalls, puts, published,
                   posted>>

\* the comparison fetch fails: the platform's processing ends
FetchErr(r) ==
    /\ pc[r] = "picked"
    /\ pc' = [pc EXCEPT ![r] = "run"]
    /\ todo' = [todo EXCEPT ![r] = Tail(@)]
    /\ new_tag' = [new_tag EXCEPT ![r] = None]
    /\ UNCHANGED <<fetch, render, loc>>
    /\ UNCHANGED <<kv, controller, load_result, api_response, post_result,
                   set_call, set_result, ncalls, puts, published, posted>>

\* Post::post: the request is sent and the forum answers
SubmitPost(r) ==
    /\ pc[r] = "fetched"
    /\ \E outcome \in ForumOutcomes :
         /\ api_response' = [api_response EXCEPT ![r] = Some(outcome)]
         /\ post_result' = [post_result EXCEPT ![r] = Some(post(outcome))]
         /\ IF outcome.post_number # None
            THEN /\ posted' = [posted EXCEPT
                       ![Head(todo[r])][Unwrap(new_tag[r])] = @ + 1]
                 /\ published' = [published EXCEPT ![r] = @ \cup {Head(todo[r])}]
            ELSE UNCHANGED <<posted, published>>
    /\ pc' = [pc EXCEPT ![r] = "posted"]
    /\ UNCHANGED <<fetch, render, loc>>
    /\ UNCHANGED <<kv, controller, load_result, todo, new_tag, set_call,
                   set_result, ncalls, puts>>

\* the state the Publisher's advance step asks for
Advanced(ps, tag, number) ==
    [ps EXCEPT !.last_posted_tag_previous_release = ps.last_posted_tag,
               !.last_posted_tag = tag,
               !.last_post_number = number]

\* the state changes of one set_platform_state call of run r
CallSet(r, platform, new, put_ok) ==
    LET res == set_platform_state(Unwrap(controller[r]), kv, platform, new, put_ok)
    IN  /\ controller' = [controller EXCEPT ![r] = Some(res.state)]
        /\ kv' = res.kv
        /\ set_call' = [set_call EXCEPT ![r] =
               Some([platform |-> platform, state |-> new])]
        /\ set_result' = [set_result EXCEPT ![r] = Some(res.ok)]
        /\ ncalls' = [ncalls EXCEPT ![r] = @ + 1]
        /\ puts' = [puts EXCEPT ![r] = @ \o
               [i \in 1..Len(res.puts) |->
                   [platform |-> platform, payload |-> res.puts[i], ok |-> res.ok]]]

\* Post::post returned a post number: the Publisher advances the platform's
\* state through the controller
Advance(r) ==
    /\ pc[r] = "posted"
    /\ Unwrap(post_result[r]).ok
    /\ \E put_ok \in BOOLEAN :
         CallSet(r, Head(todo[r]),
                 Advanced(platform_state(Unwrap(controller[r]), Head(todo[r])),
                          Unwrap(new_tag[r]), Unwrap(post_result[r]).number),
                 put_ok)
    /\ pc' = [pc EXCEPT ![r] = "run"]
    /\ todo' = [todo EXCEPT ![r] = Tail(@)]
    /\ new_tag' = [new_tag EXCEPT ![r] = None]
    /\ UNCHANGED <<fetch, render, loc>>
    /\ UNCHANGED <<load_result, api_response, post_result, published, posted>>

\* Post::post returned an error: the platform's processing ends
PostFailed(r) ==
    /\ pc[r] = "posted"
    /\ ~Unwrap(post_result[r]).ok
    /\ pc' = [pc EXCEPT ![r] = "run"]
    /\ todo' = [todo EXCEPT ![r] = Tail(@)]
    /\ new_tag' = [new_tag EXCEPT ![r] = None]
    /\ UNCHANGED <<fetch, render, loc>>
    /\ UNCHANGED <<kv, controller, load_result, api_response, post_result,
                   set_call, set_result, ncalls, puts, published, posted>>

\* every platform was processed: the run ends
EndRun(r) ==
    /\ pc[r] = "run"
    /\ todo[r] = <<>>
    /\ pc' = [pc EXCEPT ![r] = "done"]
    /\ UNCHANGED <<fetch, render, loc>>
    /\ UNCHANGED <<kv, controller, load_result, todo, new_tag, api_response,
                   post_result, set_call, set_result, ncalls, puts, published,
                   posted>>

Next ==
    \E r \in Runs :
        \/ StartRun(r)
        \/ PickTag(r)
        \/ NoNewTag(r)
        \/ FetchOk(r)
        \/ FetchErr(r)
        \/ SubmitPost(r)
        \/ Advance(r)
        \/ PostFailed(r)
        \/ EndRun(r)

Spec == Init /\ [][Next]_vars

\* two triggers fire close together: the runs overlap
OverlapRuns == {1, 2}

\* the steps of the runs without the exclusion: a run starts whether or not
\* the other one has finished
NextOverlap ==
    \E r \in OverlapRuns :
        \/ Load(r)
        \/ PickTag(r)
        \/ NoNewTag(r)
        \/ FetchOk(r)
        \/ FetchErr(r)
        \/ SubmitPost(r)
        \/ Advance(r)
        \/ PostFailed(r)
        \/ EndRun(r)

SpecOverlap == Init /\ [][NextOverlap]_vars

----------------------------------------------------------------------------
(* The controller on its own: from_kv, then set_platform_state called with *)
(* any platform and any PlatformState                                      *)

\* the PlatformState values a caller passes
ArgStates ==
    {PlatformState(t[1], t[2], n, a) :
        t \in {<<"v1.0.0", "v2.0.0-beta.1">>, <<"v2.0.0-beta.1", "v3.0.0-beta.1">>},
        n \in {None} \cup {Some(k) : k \in 1..MaxPostNumber},
        a \in BOOLEAN}

DirectSet(r) ==
    /\ pc[r] = "run"
    /\ ncalls[r] < MaxCalls
    /\ \E platform \in Platform, new \in ArgStates, put_ok \in BOOLEAN :
         CallSet(r, platform, new, put_ok)
    /\ UNCHANGED <<fetch, render, loc>>
    /\ UNCHANGED <<pc, load_result, todo, new_tag, api_response, post_result,
                   published, posted>>

NextCtl ==
    \/ Load(1)
    \/ DirectSet(1)

SpecCtl == Init /\ [][NextCtl]_vars

----------------------------------------------------------------------------
(* The comparison fetch on its own *)

\* get_github_comparison is called
StartFetch(kind) ==
    /\ fetch.pc = "idle"
    /\ fetch' = [fetch EXCEPT !.pc = "loop", !.kind = kind, !.page = 1,
                              !.url = Url(1, per_page_of(kind))]
    /\ UNCHANGED <<kv, pc, controller, load_result, todo, new_tag, api_response,
                   post_result, set_call, set_result, ncalls, puts, published,
                   posted>>
    /\ UNCHANGED <<render, loc>>

\* one request is sent and its response handled
FetchPage ==
    /\ fetch.pc = "loop"
    /\ Len(fetch.requests) < MaxRequests
    /\ \E resp \in Responses(fetch.url) : fetch' = loop_body(fetch, resp)
    /\ UNCHANGED <<kv, pc, controller, load_result, todo, new_tag, api_response,
                   post_result, set_call, set_result, ncalls, puts, published,
                   posted>>
    /\ UNCHANGED <<render, loc>>

NextFetch ==
    \/ \E kind \in {"Full", "JustAllFiles"} : StartFetch(kind)
    \/ FetchPage

\* the fetch does not touch the store
InitFetch == Init /\ kv = None

SpecFetch == InitFetch /\ [][NextFetch]_vars

\* the pages of a comparison without commits and files
EmptyPages(url) ==
    {resp \in Responses(url) : resp.commits = <<>> /\ resp.files = None}

\* the loop state new without what the model records of the requests: the
\* records requests and responses and the page number (which the loop only
\* logs) stay as they were in old
Unrecorded(old, new) ==
    [new EXCEPT !.requests = old.requests, !.responses = old.responses,
                !.page = old.page]

\* the loop goes on after the MaxRequests requests the model records: one
\* more request is sent and its response, an empty page or a failure,
\* handled
FetchPageOn ==
    /\ fetch.pc = "loop"
    /\ Len(fetch.requests) = MaxRequests
    /\ \E resp \in EmptyPages(fetch.url) :
         fetch' = Unrecorded(fetch, loop_body(fetch, resp))
    /\ UNCHANGED <<kv, pc, controller, load_result, todo, new_tag, api_response,
                   post_result, set_call, set_result, ncalls, puts, published,
                   posted>>
    /\ UNCHANGED <<render, loc>>

NextFetchOn ==
    \/ \E kind \in {"Full", "JustAllFiles"} : StartFetch(kind)
    \/ FetchPage
    \/ FetchPageOn

\* the loop is sequential code: a request that can be sent is sent, and the
\* remote answers it or the fetch fails
SpecFetchOn ==
    /\ InitFetch
    /\ [][NextFetchOn]_vars
    /\ WF_vars(FetchPage)
    /\ WF_vars(FetchPageOn)

----------------------------------------------------------------------------
(* Rendering on its own: a Post is built and rendered *)

RECURSIVE SeqsUpTo(_, _)
SeqsUpTo(S, n) ==
    IF n = 0 THEN {<<>>}
    ELSE LET shorter == SeqsUpTo(S, n - 1)
         IN  shorter \cup {Append(q, x) : q \in shorter, x \in S}

\* full commit messages
Messages == SeqsUpTo(MsgPieces, MaxMsgLen)

\* the messages of the commits after the first: one line, two lines
RestMessages == {<<"Fix">>, <<"Fix", NL, "Fix">>}

\* (previous tag, new tag) pairs; a tag is the sequence of its characters,
\* with the runs of characters other than 'v' kept as one piece
RenderTagPairs ==
    {<< <<"v", "1.2.3">>, <<"v", "1.2.4-de", "v">> >>,
     << <<"1.2.3-de", "v">>, <<"v", "1.2.4">> >>}

\* Post::new
Post_new(platform, previous_tag, tag, commits) ==
    [platform |-> platform, previous_tag |-> previous_tag, new_tag |-> tag,
     commits |-> commits]

\* a Post is built from n commits: the first with any message, the others
\* with one of the messages of RestMessages
StartRender ==
    /\ render.pc = "idle"
    /\ \E platform \in Platform, tags \in RenderTagPairs, first \in Messages,
          rest \in RestMessages, n \in 0..MaxCommits :
         LET messages == [i \in 1..n |-> IF i = 1 THEN first ELSE rest]
             commits == [i \in 1..n |->
                           Commit_new(platform, messages[i],
                                      IF i = 1 THEN "abcdef" ELSE "abc123")]
         IN  render' = [pc |-> "new", messages |-> messages,
                        post |-> Some(Post_new(platform, tags[1], tags[2], commits)),
                        text |-> <<>>]
    /\ UNCHANGED <<kv, pc, controller, load_result, todo, new_tag, api_response,
                   post_result, set_call, set_result, ncalls, puts, published,
                   posted>>
    /\ UNCHANGED <<fetch, loc>>

\* Post::markdown_text is called
DoRender ==
    /\ render.pc = "new"
    /\ render' = [render EXCEPT !.pc = "done",
                                !.text = Post_markdown_text(Unwrap(render.post))]
    /\ UNCHANGED <<kv, pc, controller, load_result, todo, new_tag, api_response,
                   post_result, set_call, set_result, ncalls, puts, published,
                   posted>>
    /\ UNCHANGED <<fetch, loc>>

NextRender ==
    \/ StartRender
    \/ DoRender

InitRender == Init /\ kv = None

SpecRender == InitRender /\ [][NextRender]_vars

----------------------------------------------------------------------------
(* The localization extractor on its own: the changes of a file list and of
   its permutations *)

\* the file lists of a comparison
FileLists == SeqsUpTo(Filenames, MaxFiles)

\* a comparison with any file list is at hand
StartExtract ==
    /\ loc.pc = "idle"
    /\ \E platform \in Platform, files \in FileLists :
         loc' = [pc |-> "files", platform |-> platform, original |-> files,
                 files |-> files, first |-> None, result |-> None]
    /\ UNCHANGED <<kv, pc, controller, load_result, todo, new_tag, api_response,
                   post_result, set_call, set_result, ncalls, puts, published,
                   posted>>
    /\ UNCHANGED <<fetch, render>>

\* localization_changes_from_comparison is called on the file list; the
\* result of the first call is kept
Extract ==
    /\ loc.pc = "files"
    /\ LET changes == localization_changes_from_comparison(loc.platform, loc.files)
       IN  loc' = [loc EXCEPT !.pc = "extracted",
                              !.result = Some(changes),
                              !.first = IF loc.first = None THEN Some(changes)
                                        ELSE loc.first]
    /\ UNCHANGED <<kv, pc, controller, load_result, todo, new_tag, api_response,
                   post_result, set_call, set_result, ncalls, puts, published,
                   posted>>
    /\ UNCHANGED <<fetch, render>>

\* the remote API answers with the same files in another order: two
\* neighbours of the list change places
Permute ==
    /\ loc.pc = "extracted"
    /\ \E i \in 1..(Len(loc.files) - 1) :
         /\ loc.files[i] # loc.files[i + 1]
         /\ loc' = [loc EXCEPT !.pc = "files",
                               !.result = None,
                               !.files = [loc.files EXCEPT ![i] = loc.files[i + 1],
                                                           ![i + 1] = loc.files[i]]]
    /\ UNCHANGED <<kv, pc, controller, load_result, todo, new_tag, api_response,
                   post_result, set_call, set_result, ncalls, puts, published,
                   posted>>
    /\ UNCHANGED <<fetch, render>>

NextExtract ==
    \/ StartExtract
    \/ Extract
    \/ Permute

InitExtract == Init /\ kv = None

SpecExtract == InitExtract /\ [][NextExtract]_vars

----------------------------------------------------------------------------
(* Claims *)

\* C1: over any sequence of job runs, each release tag of a platform is
\* posted to the forum at most once.
C1_AtMostOnce ==
    \A p \in Platform, t \in Tags : posted[p][t] <= 1

NoNumber(r) ==
    /\ api_response[r] # None
    /\ Unwrap(api_response[r]).transport_ok
    /\ Unwrap(api_response[r]).post_number = None

\* C2: when the forum response holds no post number, Post::post has returned
\* an error and the step that follows leaves the run's in-memory State and
\* the stored record as they are.
C2_NoNumberNoAdvance ==
    [][\A r \in Runs :
          (pc[r] = "posted" /\ NoNumber(r))
          => /\ ~Unwrap(post_result[r]).ok
             /\ controller'[r] = controller[r]
             /\ kv' = kv
             /\ puts'[r] = puts[r]]_vars

\* a run went past a response without post number, nothing was set or put
C2_Witness ==
    \E r \in Runs :
        /\ pc[r] = "run"
        /\ NoNumber(r)
        /\ ~Unwrap(post_result[r]).ok
        /\ ncalls[r] = 0
        /\ puts[r] = <<>>
        /\ controller[r] = kv

\* C3: every put a run issues is for a platform whose post got a post number
\* earlier in that run; a run without such a post issues no put.
C3_PutOnlyAfterPublish ==
    \A r \in Runs :
        \A i \in 1..Len(puts[r]) : puts[r][i].platform \in published[r]

C3_Witness ==
    \E r \in Runs :
        /\ Len(puts[r]) > 0
        /\ puts[r][1].platform \in published[r]
        /\ kv = Some(puts[r][1].payload)

\* a step of run r that is a set_platform_state call
IsCall(r) == ncalls'[r] = ncalls[r] + 1

CallPlatform(r) == Unwrap(set_call'[r]).platform

CallArg(r) == Unwrap(set_call'[r]).state

\* C4: set_platform_state with the value the platform already holds puts
\* nothing, leaves the in-memory State as it is and returns Ok.
C4_EqualIsNoOp ==
    [][\A r \in Runs :
          (IsCall(r)
             /\ CallArg(r) = platform_state(Unwrap(controller[r]), CallPlatform(r)))
          => /\ puts'[r] = puts[r]
             /\ kv' = kv
             /\ controller'[r] = controller[r]
             /\ set_result'[r] = Some(TRUE)]_vars

C4_Witness ==
    \E r \in Runs :
        /\ ncalls[r] = 1
        /\ Unwrap(set_call[r]).state
             = platform_state(Unwrap(controller[r]), Unwrap(set_call[r]).platform)
        /\ puts[r] = <<>>
        /\ load_result[r] = "Ok"
        /\ controller[r] = kv
        /\ set_result[r] = Some(TRUE)

\* C5: set_platform_state with a different value replaces the platform's
\* in-memory state and issues exactly one put, whose payload is the whole
\* State: the new value for the platform and, for every other field, the
\* value held in memory before the call.
C5_ChangeWritesWholeState ==
    [][\A r \in Runs :
          (IsCall(r)
             /\ CallArg(r) # platform_state(Unwrap(controller[r]), CallPlatform(r)))
          => /\ controller'[r] = Some([Unwrap(controller[r]) EXCEPT
                    ![platform_field(CallPlatform(r))] = CallArg(r)])
             /\ Len(puts'[r]) = Len(puts[r]) + 1
             /\ SubSeq(puts'[r], 1, Len(puts[r])) = puts[r]
             /\ LET payload == puts'[r][Len(puts'[r])].payload
                IN  /\ DOMAIN payload = StateFields
                    /\ payload[platform_field(CallPlatform(r))] = CallArg(r)
                    /\ \A f \in StateFields \ {platform_field(CallPlatform(r))} :
                          payload[f] = Unwrap(controller[r])[f]]_vars

\* a call changed one platform while memory and store differed elsewhere, and
\* the put carried every field
C5_Witness ==
    \E r \in Runs :
        /\ ncalls[r] = 2
        /\ Len(puts[r]) = 2
        /\ ~puts[r][1].ok
        /\ puts[r][2].ok
        /\ puts[r][1].platform # puts[r][2].platform
        /\ kv = controller[r]
        /\ kv = Some(puts[r][2].payload)

\* C6: when the put fails, set_platform_state returns an error, the in-memory
\* state keeps the new value and the stored record keeps its old value.
C6_FailedPutKeepsMemory ==
    [][\A r \in Runs :
          (IsCall(r)
             /\ Len(puts'[r]) > Len(puts[r])
             /\ ~puts'[r][Len(puts'[r])].ok)
          => /\ set_result'[r] = Some(FALSE)
             /\ platform_state(Unwrap(controller'[r]), CallPlatform(r)) = CallArg(r)
             /\ kv' = kv]_vars

C6_Witness ==
    \E r \in Runs :
        /\ ncalls[r] = 1
        /\ set_result[r] = Some(FALSE)
        /\ Len(puts[r]) = 1
        /\ platform_state(Unwrap(controller[r]), Unwrap(set_call[r]).platform)
             = Unwrap(set_call[r]).state
        /\ controller[r] # kv

\* both tags parse and the previous release's version is >= the last posted
BadOrder(ps) ==
    /\ to_version(ps.last_posted_tag_previous_release) # None
    /\ to_version(ps.last_posted_tag) # None
    /\ VersionGE(Unwrap(to_version(ps.last_posted_tag_previous_release)),
                 Unwrap(to_version(ps.last_posted_tag)))

\* a step of run r that is a from_kv call the store answered
IsLoad(r) == pc[r] = "idle" /\ pc'[r] # "idle" /\ load_result'[r] # "GetErr"

\* C7: loading fails whenever the stored record has, for any of android, ios
\* and desktop, a previous-release version >= the last posted version: no
\* controller is returned and no platform is processed.
C7_LoadFailsOnAnyBadField ==
    [][\A r \in Runs :
          (IsLoad(r) /\ kv # None
             /\ \E f \in StateFields : BadOrder(Unwrap(kv)[f]))
          => /\ load_result'[r] = "Invalid"
             /\ controller'[r] = None
             /\ pc'[r] = "failed"]_vars

\* C8: when the store holds no record, from_kv fails with the 'no state'
\* error, returns no controller and puts nothing; the store stays empty.
C8_NoStateNoBootstrap ==
    [][\A r \in Runs :
          kv = None
          => /\ kv' = None
             /\ puts'[r] = puts[r]
             /\ IsLoad(r) => /\ load_result'[r] = "NoState"
                             /\ controller'[r] = None
                             /\ pc'[r] = "failed"]_vars

C8_Witness ==
    \E r \in Runs :
        /\ load_result[r] = "NoState"
        /\ pc[r] = "failed"
        /\ kv = None
        /\ puts[r] = <<>>

\* the invariant of PlatformState
StrictlyLess(ps) ==
    /\ to_version(ps.last_posted_tag_previous_release) # None
    /\ to_version(ps.last_posted_tag) # None
    /\ VersionLess(Unwrap(to_version(ps.last_posted_tag_previous_release)),
                   Unwrap(to_version(ps.last_posted_tag)))

\* C9: after a successful load, and after any advance steps, every platform's
\* in-memory and stored PlatformState has version(previous release) <
\* version(last posted).
C9_StrictOrderEverywhere ==
    \A r \in Runs :
        load_result[r] = "Ok"
        => /\ \A f \in StateFields : StrictlyLess(Unwrap(controller[r])[f])
           /\ \A f \in StateFields : StrictlyLess(Unwrap(kv)[f])

FetchResult == Unwrap(fetch.result)

\* the loop was left through a break: the last response was read and, in
\* Full mode, its links were parsed and held no next
LeftLoop ==
    /\ fetch.pc = "done"
    /\ Unwrap(fetch.last).fetch_ok
    /\ Unwrap(fetch.last).json_ok
    /\ fetch.kind = "Full" => /\ Unwrap(fetch.last).link.parsable
                              /\ Unwrap(fetch.last).link.next = None

\* C10: a Full fetch returns a Comparison only if the commits accumulated
\* over all pages number total_commits, and then it returns all of them; on a
\* mismatch it returns the 'incomplete full comparison' error carrying the
\* expected and the actual count.
C10_FullIsComplete ==
    (fetch.pc = "done" /\ fetch.kind = "Full")
    => /\ FetchResult.ok
          => /\ Len(fetch.commits) = Unwrap(fetch.total_commits)
             /\ Unwrap(FetchResult.comparison).commits = fetch.commits
             /\ Unwrap(FetchResult.comparison).total_commits
                  = Len(fetch.commits)
       /\ (LeftLoop /\ Len(fetch.commits) # Unwrap(fetch.total_commits))
          => /\ ~FetchResult.ok
             /\ FetchResult.error = "incomplete full comparison"
             /\ FetchResult.comparison = None
             /\ FetchResult.expected = fetch.total_commits
             /\ FetchResult.actual = Some(Len(fetch.commits))

\* two pages were fetched and their counts did not add up to total_commits
C10_Witness ==
    /\ fetch.pc = "done"
    /\ fetch.kind = "Full"
    /\ Len(fetch.requests) = 2
    /\ LeftLoop
    /\ Len(fetch.commits) = 1
    /\ fetch.total_commits = Some(2)
    /\ ~FetchResult.ok
    /\ FetchResult.expected = Some(2)
    /\ FetchResult.actual = Some(1)

\* the first response was read
FirstPageRead ==
    /\ Len(fetch.responses) > 0
    /\ fetch.responses[1].fetch_ok
    /\ fetch.responses[1].json_ok

\* C11: in both modes the total_commits returned, and the value the Full mode
\* compares with the accumulated commit count, is the total_commits of the
\* first response page, also when later pages report another value.
C11_TotalFromFirstPage ==
    (fetch.pc = "done" /\ FirstPageRead)
    => /\ FetchResult.ok
          => Unwrap(FetchResult.comparison).total_commits
               = fetch.responses[1].total_commits
       /\ FetchResult.error = "incomplete full comparison"
          => FetchResult.expected = Some(fetch.responses[1].total_commits)

RECURSIVE ConcatCommits(_)
ConcatCommits(responses) ==
    IF responses = <<>> THEN <<>>
    ELSE ConcatCommits(SubSeq(responses, 1, Len(responses) - 1))
           \o responses[Len(responses)].commits

HasNext(resp) ==
    /\ resp.fetch_ok
    /\ resp.json_ok
    /\ resp.link.present
    /\ resp.link.parsable
    /\ resp.link.next # None

\* C12: in Full mode every request but the first goes to the next link of
\* the response before it, one response is read per request, no request
\* follows a response without next link, and the commit list is the
\* concatenation of the pages' commits in request order.
C12_FullFollowsNextLinks ==
    fetch.kind = "Full"
    => /\ Len(fetch.responses) = Len(fetch.requests)
       /\ Len(fetch.requests) > 0 => fetch.requests[1] = Url(1, 100)
       /\ \A i \in 2..Len(fetch.requests) :
             /\ HasNext(fetch.responses[i - 1])
             /\ fetch.requests[i] = Unwrap(fetch.responses[i - 1].link.next)
       /\ (fetch.pc = "loop" /\ Len(fetch.responses) > 0)
          => /\ HasNext(fetch.responses[Len(fetch.responses)])
             /\ fetch.url
                  = Unwrap(fetch.responses[Len(fetch.responses)].link.next)
       /\ fetch.pc = "done"
          => ~HasNext(fetch.responses[Len(fetch.responses)])
       /\ (fetch.pc = "done" /\ FetchResult.ok)
          => Unwrap(FetchResult.comparison).commits
               = ConcatCommits(fetch.responses)
       /\ (Len(fetch.responses) > 0
             /\ fetch.responses[Len(fetch.responses)].json_ok)
          => fetch.commits = ConcatCommits(fetch.responses)

\* two pages, the second reached through a next link that names page 1
\* again, and both pages' commits returned in request order
C12_Witness ==
    /\ fetch.kind = "Full"
    /\ fetch.pc = "done"
    /\ FetchResult.ok
    /\ Len(fetch.requests) = 2
    /\ fetch.requests[2] = Url(1, 100)
    /\ Len(Unwrap(FetchResult.comparison).commits) = 2

\* C13: in JustAllFiles mode exactly one request is made, with a page size of
\* 1; whatever the Link header and whatever the commit count, a readable
\* first page makes the call return that page's files and total_commits.
C13_JustAllFilesOnePage ==
    fetch.kind = "JustAllFiles"
    => /\ Len(fetch.requests) <= 1
       /\ Len(fetch.requests) = 1
          => /\ fetch.requests[1] = Url(1, 1)
             /\ fetch.pc = "done"
       /\ (fetch.pc = "done" /\ FirstPageRead)
          => /\ FetchResult.ok
             /\ Unwrap(FetchResult.comparison).total_commits
                  = fetch.responses[1].total_commits
             /\ Unwrap(FetchResult.comparison).files
                  = Some(IF fetch.responses[1].files = None THEN <<>>
                         ELSE Unwrap(fetch.responses[1].files))

\* a single page without Link header whose commits do not number
\* total_commits is returned
C13_Witness ==
    /\ fetch.kind = "JustAllFiles"
    /\ fetch.pc = "done"
    /\ FirstPageRead
    /\ ~fetch.responses[1].link.present
    /\ fetch.responses[1].total_commits = 2
    /\ Len(fetch.responses[1].commits) = 1
    /\ fetch.responses[1].files # None
    /\ FetchResult.ok

\* the positions of the rendered text that hold piece
Positions(piece) == {i \in 1..Len(render.text) : render.text[i] = piece}

\* the pieces of the rendered text that directly follow a piece equal to
\* marker are, in order, the elements of expected
PiecesAfter(marker, expected) ==
    LET at == Positions(marker)
    IN  /\ Cardinality(at) = Len(expected)
        /\ \A i \in at :
              render.text[i + 1] = expected[Cardinality({j \in at : j <= i})]

Rendered == render.pc = "done"

RenderedCount == Len(render.messages)

\* the commit block of the rendered text is inside the collapsible markers
Collapsed ==
    /\ \E i \in 1..Len(render.text) : render.text[i] = "[details=\"Show commits\"]"
    /\ \E i \in 1..Len(render.text) : render.text[i] = "[/details]"

\* either marker is in the rendered text
AnyCollapseMarker ==
    \E i \in 1..Len(render.text) :
        render.text[i] \in {"[details=\"Show commits\"]", "[/details]"}

\* C14: the rendered text of a Post has its commit list inside the
\* 'Show commits' markers exactly when the Post has more than 20 commits, and
\* the commits carry the ordinals 1..n in their original order (the ordinal
\* of the i-th commit is followed by the link to the i-th commit).
C14_CollapseAboveTwenty ==
    Rendered =>
      /\ Collapsed <=> RenderedCount > 20
      /\ AnyCollapseMarker <=> RenderedCount > 20
      /\ PiecesAfter(" [[", [k \in 1..RenderedCount |-> ToString(k)])
      /\ PiecesAfter("/commit/",
                     [k \in 1..RenderedCount |-> Unwrap(render.post).commits[k].sha])

C14_Witness ==
    /\ Rendered
    /\ RenderedCount = 21
    /\ Collapsed
    /\ PiecesAfter(" [[", [k \in 1..21 |-> ToString(k)])

\* the lines of a message: the pieces between consecutive line breaks
LinesOf(m) ==
    LET breaks == {i \in 1..Len(m) : m[i] = NL}
        cut == {0} \cup breaks
        nth(k) == CHOOSE i \in cut : Cardinality({j \in cut : j < i}) = k - 1
        endOf(from) == IF \E b \in breaks : b > from
                       THEN (CHOOSE b \in breaks :
                               /\ b > from
                               /\ \A c \in breaks : c > from => b <= c) - 1
                       ELSE Len(m)
    IN  [k \in 1..Cardinality(cut) |-> SubSeq(m, nth(k) + 1, endOf(nth(k)))]

Dropped(line) ==
    \E i \in 1..Len(line) : line[i] \in {"Co-Authored-By", "This reverts commit"}

\* the lines of a message that hold neither marker, in their order
KeptLines(m) == SelectSeq(LinesOf(m), LAMBDA line : ~Dropped(line))

Least(S) == CHOOSE i \in S : \A j \in S : i <= j

\* the first rendered commit entry is render.text[Entry1From..Entry1To]
Entry1From == Least(Positions("- "))

Entry1To ==
    LET bullets == Positions("- ")
    IN  IF Cardinality(bullets) >= 2
        THEN Least(bullets \ {Least(bullets)}) - 1
        ELSE Len(render.text)

\* the headline of the first entry: the text between "- " and " [["
Headline1 ==
    LET from == Entry1From
    IN  SubSeq(render.text, from + 1,
               (CHOOSE j \in (from + 1)..Len(render.text) :
                  /\ render.text[j] = " [["
                  /\ \A h \in (from + 1)..(j - 1) : render.text[h] # " [[") - 1)

\* the indents of the first entry
Indents1 ==
    LET from == Entry1From
        to == Entry1To
    IN  {i \in Positions("    ") : from <= i /\ i <= to}

\* the lines of the detail block of the first entry: each goes from an
\* indent to the next line break
DetailLines1 ==
    LET indents == Indents1
        nth(k) == CHOOSE i \in indents :
                      Cardinality({j \in indents : j <= i}) = k
        lineEnd(i) == (CHOOSE j \in (i + 1)..Len(render.text) :
                         /\ render.text[j] = NL
                         /\ \A h \in (i + 1)..(j - 1) : render.text[h] # NL) - 1
    IN  [k \in 1..Cardinality(indents) |->
           SubSeq(render.text, nth(k) + 1, lineEnd(nth(k)))]

\* C15: the rendered entry of a commit holds exactly the lines of its
\* message that contain neither the co-author marker nor 'This reverts
\* commit', in their order, wherever the dropped lines are (the first line
\* included): the first kept line is the headline, the other kept lines are
\* the detail block, each after a line break and a 4-space indent.
C15_DropsMarkedLines ==
    (Rendered /\ RenderedCount >= 1) =>
      LET kept == KeptLines(render.messages[1])
          details == DetailLines1
      IN  /\ kept # <<>> => <<Headline1>> \o details = kept
          /\ kept = <<>> => details = <<>>
          /\ \A i \in Indents1 : render.text[i - 1] = NL

\* the first line is dropped, the headline is the second line and the third
\* line, an empty one, is the detail block
C15_Witness ==
    /\ Rendered
    /\ RenderedCount >= 2
    /\ render.messages[1] = <<"Co-Authored-By", NL, "Fix", NL>>
    /\ Headline1 = <<"Fix">>
    /\ DetailLines1 = << <<>> >>

\* C20: the headline of a rendered commit is the first line of its message
\* that is left after the marked lines are dropped, and it is the placeholder
\* '*Empty commit message*' exactly when no line is left. The empty message
\* has one line, the empty one, which is left: its headline is empty.
C20_HeadlineOrPlaceholder ==
    (Rendered /\ RenderedCount >= 1) =>
      LET kept == KeptLines(render.messages[1])
          headline == Headline1
      IN  /\ kept # <<>> => headline = kept[1]
          /\ kept = <<>> => headline = <<"*Empty commit message*">>
          /\ headline = <<"*Empty commit message*">> <=> kept = <<>>

\* a message made only of dropped lines is rendered with the placeholder
C20_Witness ==
    /\ Rendered
    /\ RenderedCount >= 1
    /\ render.messages[1] = <<"Co-Authored-By", NL, "Fix", "This reverts commit">>
    /\ Headline1 = <<"*Empty commit message*">>

\* C16: in the rendered text of a Post every commit entry after the first
\* comes after a blank line, that is after two consecutive line breaks,
\* also when the entry before it has a detail block.
C16_BlankLineBetweenEntries ==
    Rendered =>
      LET bullets == Positions("- ")
      IN  \A i \in bullets :
            i # Least(bullets) =>
              /\ render.text[i - 1] = NL
              /\ render.text[i - 2] = NL

\* the pieces of the rendered text after the first piece equal to left, up to
\* the next piece equal to right
Between(left, right) ==
    LET from == Least(Positions(left))
    IN  SubSeq(render.text, from + 1,
               (CHOOSE j \in (from + 1)..Len(render.text) :
                  /\ render.text[j] = right
                  /\ \A h \in (from + 1)..(j - 1) : render.text[h] # right) - 1)

\* a tag without its leading 'v', if it has one
WithoutLeadingV(tag) == IF tag # <<>> /\ Head(tag) = "v" THEN Tail(tag) ELSE tag

\* C17: the versions shown in the rendered text, the new one in the heading
\* and the previous one after 'since', are the tags with only a leading 'v'
\* removed: every later 'v' of a tag is shown.
C17_OnlyLeadingVRemoved ==
    Rendered =>
      /\ Between("## :tada: - New Version: ", NL)
            = WithoutLeadingV(Unwrap(render.post).new_tag)
      /\ Between(" since ", ":")
            = WithoutLeadingV(Unwrap(render.post).previous_tag)

\* the pre-release labels that contain "beta"
BetaLabels == {"beta", "beta.1"}

\* the tag parses to a version that may be announced for the platform: one
\* without build component for Android, one with a beta pre-release label
\* for Desktop
PostWorthy(platform, tag) ==
    /\ version_from_tag(tag) # None
    /\ platform = "Android" => Unwrap(version_from_tag(tag)).build = ""
    /\ platform = "Desktop" => Unwrap(version_from_tag(tag)).pre \in BetaLabels

\* C18: should_post_version is true for Android exactly when the build
\* component of the version is empty and for Desktop exactly when its
\* pre-release label contains "beta"; a tag whose version fails it is never
\* posted for the platform and never written to the store as the platform's
\* last_posted_tag.
C18_OnlyPostWorthyTags ==
    /\ \A platform \in Platform :
          \A tag \in {t \in Tags : version_from_tag(t) # None} :
            should_post_version(platform, Unwrap(version_from_tag(tag)))
              <=> PostWorthy(platform, tag)
    /\ \A platform \in Platform : \A tag \in Tags :
          posted[platform][tag] > 0 => PostWorthy(platform, tag)
    /\ \A r \in Runs : \A i \in 1..Len(puts[r]) :
          PostWorthy(puts[r][i].platform,
                     platform_state(puts[r][i].payload,
                                    puts[r][i].platform).last_posted_tag)

\* a beta tag was posted for Desktop and stored as its last_posted_tag, while
\* the tag v2.0.0-rc.1 of the list, later than the stored v2.0.0-beta.1, was
\* not posted
C18_Witness ==
    /\ posted["Desktop"]["v3.0.0-beta.1"] > 0
    /\ posted["Desktop"]["v2.0.0-rc.1"] = 0
    /\ "v2.0.0-rc.1" \in RemoteTags("Desktop")
    /\ VersionLess(Unwrap(version_from_tag("v2.0.0-beta.1")),
                   Unwrap(version_from_tag("v2.0.0-rc.1")))
    /\ \E r \in Runs : \E i \in 1..Len(puts[r]) :
          /\ puts[r][i].platform = "Desktop"
          /\ puts[r][i].ok
          /\ puts[r][i].payload.desktop.last_posted_tag = "v3.0.0-beta.1"
          /\ puts[r][i].payload.desktop.last_posted_tag_previous_release
                = "v2.0.0-beta.1"

\* the number of places of seq that hold x
Count(seq, x) == Cardinality({i \in 1..Len(seq) : seq[i] = x})

\* C19: for every order of the file list, localization_changes_from_comparison
\* returns the same sequence (the one returned for the first order), which
\* ascends and holds, as often as they occur, exactly the classifications
\* of the files that map to a localization change.
C19_SameSortedChanges ==
    loc.pc = "extracted" =>
      LET changes == Unwrap(loc.result)
      IN  /\ changes = Unwrap(loc.first)
          /\ \A i \in 1..Len(changes) : \A j \in (i + 1)..Len(changes) :
                ~ChangeLess(changes[j], changes[i])
          /\ \A change \in {"de", "en"} :
                Count(changes, change)
                  = Cardinality({i \in 1..Len(loc.files) :
                       localization_change(loc.platform, loc.files[i])
                         = Some(change)})
          /\ \A i \in 1..Len(changes) : changes[i] \in {"de", "en"}

\* a list of an English file, an unrelated file and a German file, taken in
\* another order than at first, gives the German change before the English
C19_Witness ==
    /\ loc.pc = "extracted"
    /\ loc.platform = "Desktop"
    /\ loc.original = <<"_locales/de/messages.json", "README.md",
                        "_locales/en/messages.json">>
    /\ loc.files = <<"_locales/en/messages.json", "README.md",
                     "_locales/de/messages.json">>
    /\ Unwrap(loc.first) = <<"de", "en">>
    /\ Unwrap(loc.result) = <<"de", "en">>

\* C21: the page loop of get_github_comparison ends, with a result or an
\* error, after finitely many requests, whatever the remote API answers (a
\* next link that names a page already fetched included).
C21_FetchTerminates == (fetch.pc = "loop") ~> (fetch.pc = "done")

\* the response was read and carries no Link header
NoLinkHeader(resp) ==
    /\ resp.fetch_ok
    /\ resp.json_ok
    /\ ~resp.link.present

\* C22: in Full mode a response without Link header ends the fetch with the
\* error that names the missing header, also when it is the only page and
\* its commits number total_commits; a Full fetch returns a Comparison only
\* if its last response has a Link header that parses and holds no next
\* relation.
C22_FullNeedsLinkHeader ==
    fetch.kind = "Full" =>
      /\ \A i \in 1..Len(fetch.responses) :
            NoLinkHeader(fetch.responses[i])
              => /\ i = Len(fetch.responses)
                 /\ fetch.pc = "done"
                 /\ ~FetchResult.ok
                 /\ FetchResult.error = "no Link header in GitHub's response"
                 /\ FetchResult.comparison = None
      /\ (fetch.pc = "done" /\ FetchResult.ok)
            => /\ Unwrap(fetch.last).link.present
               /\ Unwrap(fetch.last).link.parsable
               /\ Unwrap(fetch.last).link.next = None

\* the only page holds all the commits of the comparison and has no Link
\* header: the fetch fails
C22_Witness ==
    /\ fetch.pc = "done"
    /\ fetch.kind = "Full"
    /\ Len(fetch.responses) = 1
    /\ NoLinkHeader(fetch.responses[1])
    /\ fetch.responses[1].total_commits = 1
    /\ Len(fetch.commits) = 1
    /\ ~FetchResult.ok
    /\ FetchResult.error = "no Link header in GitHub's response"

\* run r has put and its last put failed: no write of r has succeeded since
LastPutFailed(r) ==
    /\ Len(puts[r]) > 0
    /\ ~puts[r][Len(puts[r])].ok

\* the call before this step failed on the store write, and this step is a
\* call for the same platform with the same value
RepeatsFailedCall(r) ==
    /\ IsCall(r)
    /\ set_result[r] = Some(FALSE)
    /\ set_call'[r] = set_call[r]

\* the repeated call is treated as unchanged: no put, Ok, and neither the
\* in-memory State nor the stored record changes
RepeatIsNoOp ==
    \A r \in Runs :
        RepeatsFailedCall(r)
        => /\ puts'[r] = puts[r]
           /\ set_result'[r] = Some(TRUE)
           /\ controller'[r] = controller[r]
           /\ kv' = kv

\* C23 as stated: a set_platform_state call that repeats, with the same
\* platform and value, a call that failed on the store write puts nothing
\* and returns Ok, and the in-memory State and the stored record differ from
\* the failed write until a write of the run succeeds.
C23_DifferentUntilWritten ==
    /\ [][RepeatIsNoOp]_vars
    /\ [](\A r \in Runs :
            (controller[r] # None /\ LastPutFailed(r)) => controller[r] # kv)

\* C23, amended: the repeated call puts nothing, returns Ok and changes
\* neither the in-memory State nor the stored record, so a difference
\* between the two outlasts it; from a failed write until a write of the run
\* succeeds the in-memory State is the State whose put failed (which is the
\* stored record again if the failed calls set the stored values back).
C23_RepeatedSetIsNoOp ==
    /\ [][RepeatIsNoOp]_vars
    /\ [][\A r \in Runs :
            (RepeatsFailedCall(r) /\ controller[r] # kv)
            => controller'[r] # kv']_vars
    /\ [](\A r \in Runs :
            (controller[r] # None /\ LastPutFailed(r))
            => controller[r] = Some(puts[r][Len(puts[r])].payload))

\* the first call failed on the write, the second call repeated it: one put
\* in all, Ok, and the in-memory State is not the stored record
C23_Witness ==
    \E r \in Runs :
        /\ ncalls[r] = 2
        /\ Len(puts[r]) = 1
        /\ ~puts[r][1].ok
        /\ Unwrap(set_call[r]).platform = puts[r][1].platform
        /\ Unwrap(set_call[r]).state
             = platform_state(puts[r][1].payload, puts[r][1].platform)
        /\ set_result[r] = Some(TRUE)
        /\ controller[r] = Some(puts[r][1].payload)
        /\ controller[r] # kv

\* C24: the runs do not guard their read-modify-write of the State: a write
\* that changes the record stores the whole in-memory State of the writing
\* run, so for every platform but the one of the call the record gets the
\* value that run holds, whatever another run stored there since. With
\* overlapping runs this loses an update and posts a release twice (see the
\* witness).
C24_WriteBackIsWholeState ==
    [][\A r \in OverlapRuns :
          (IsCall(r) /\ kv' # kv)
          => /\ kv' = controller'[r]
             /\ \A platform \in Platform \ {CallPlatform(r)} :
                   platform_state(Unwrap(kv'), platform)
                     = platform_state(Unwrap(controller[r]), platform)]_vars

\* run 1 advanced Android and stored it; run 2, which had loaded the same
\* State, then advanced Desktop and stored its whole State: the record holds
\* for Android the tag from before run 1's advance, and both runs posted the
\* same Desktop release
C24_Witness ==
    \E t \in Tags : \E i \in 1..Len(puts[1]) : \E j \in 1..Len(puts[2]) :
        /\ posted["Desktop"][t] = 2
        /\ "Desktop" \in published[1]
        /\ "Desktop" \in published[2]
        /\ puts[1][i].platform = "Android"
        /\ puts[1][i].ok
        /\ puts[2][j].platform = "Desktop"
        /\ puts[2][j].ok
        /\ puts[2][j].payload.desktop.last_posted_tag = t
        /\ kv = Some(puts[2][j].payload)
        /\ puts[2][j].payload.android.last_posted_tag
             = puts[1][i].payload.android.last_posted_tag_previous_release
        /\ puts[2][j].payload.android.last_posted_tag
             # puts[1][i].payload.android.last_posted_tag

====
